---- MODULE Spec2Model ----
(***************************************************************************)
(* KintoneManager (src/KintoneManager.js): a client that builds the URL,   *)
(* the authentication headers and the payload of five kintone REST calls   *)
(* and hands them to UrlFetchApp.fetch.                                    *)
(*                                                                         *)
(* A JavaScript string is modelled as a sequence of one-character strings, *)
(* a byte as its integer value, and a value whose type the code tests at   *)
(* run time (undefined, null, false, a string, a number, an object) as a   *)
(* record tagged with its type.                                            *)
(***************************************************************************)
EXTENDS Integers, Sequences, FiniteSets, TLC

\* ------------------------------------------------------------------------
\* JavaScript values
\* ------------------------------------------------------------------------
undefined == [t |-> "undefined"]

null == [t |-> "null"]

false == [t |-> "boolean", v |-> FALSE]

Str(s) == [t |-> "string", v |-> s]

Num(n) == [t |-> "number", v |-> n]

CR == "\r"

LF == "\n"

Digits == <<"0", "1", "2", "3", "4", "5", "6", "7", "8", "9">>

\* Number.prototype.toString for the non-negative integers the model uses
RECURSIVE NumToStr(_)
NumToStr(n) ==
  IF n < 10 THEN <<Digits[n + 1]>>
  ELSE NumToStr(n \div 10) \o <<Digits[(n % 10) + 1]>>

\* String(x), the ToString conversion applied by template literals and by String.prototype.replace
String(x) ==
  CASE x.t = "undefined" -> <<"u", "n", "d", "e", "f", "i", "n", "e", "d">>
    [] x.t = "null" -> <<"n", "u", "l", "l">>
    [] x.t = "boolean" -> IF x.v THEN <<"t", "r", "u", "e">> ELSE <<"f", "a", "l", "s", "e">>
    [] x.t = "number" -> NumToStr(x.v)
    [] x.t = "string" -> x.v
    [] x.t = "function" -> <<"f", "u", "n", "c", "t", "i", "o", "n", " ", "(", ")", " ", "{", " ", "[", "n", "a", "t", "i", "v", "e", " ", "c", "o", "d", "e", "]", " ", "}">>
    [] OTHER -> <<"[", "o", "b", "j", "e", "c", "t", " ", "O", "b", "j", "e", "c", "t", "]">>

\* ToBoolean, as applied by !, && and if
ToBoolean(x) ==
  CASE x.t = "undefined" -> FALSE
    [] x.t = "null" -> FALSE
    [] x.t = "boolean" -> x.v
    [] x.t = "number" -> x.v # 0
    [] x.t = "string" -> x.v # <<>>
    [] OTHER -> TRUE

\* The characters of codes 32..126 in code order (the grave accent, which the
\* model never uses, is spelled out)
\* ------------------------------------------------------------------------
\* Character codes, UTF-8 bytes of ASCII text, Base64
\* ------------------------------------------------------------------------
Printable ==
  <<" ", "!", "\"", "#", "$", "%", "&", "'", "(", ")", "*", "+", ",", "-", ".", "/", "0", "1", "2", "3", "4", "5", "6", "7", "8", "9", ":", ";", "<", "=", ">", "?", "@", "A", "B", "C", "D", "E", "F", "G", "H", "I", "J", "K", "L", "M", "N", "O", "P", "Q", "R", "S", "T", "U", "V", "W", "X", "Y", "Z", "[">> \o <<"\\">> \o
  <<"]", "^", "_">> \o <<"(grave)">> \o <<"a", "b", "c", "d", "e", "f", "g", "h", "i", "j", "k", "l", "m", "n", "o", "p", "q", "r", "s", "t", "u", "v", "w", "x", "y", "z", "{", "|", "}", "~">>

CharCodeOf ==
  [c \in {Printable[i] : i \in 1..Len(Printable)} \cup {CR, LF} |->
     IF c = CR THEN 13
     ELSE IF c = LF THEN 10
     ELSE 31 + (CHOOSE i \in 1..Len(Printable) : Printable[i] = c)]

\* Utilities.newBlob(text).getBytes(): the UTF-8 bytes of an ASCII text
getBytes(s) == [i \in 1..Len(s) |-> CharCodeOf[s[i]]]

B64 == <<"A", "B", "C", "D", "E", "F", "G", "H", "I", "J", "K", "L", "M", "N", "O", "P", "Q", "R", "S", "T", "U", "V", "W", "X", "Y", "Z", "a", "b", "c", "d", "e", "f", "g", "h", "i", "j", "k", "l", "m", "n", "o", "p", "q", "r", "s", "t", "u", "v", "w", "x", "y", "z", "0", "1", "2", "3", "4", "5", "6", "7", "8", "9", "+", "/">>

RECURSIVE base64Bytes(_)
base64Bytes(b) ==
  IF Len(b) = 0 THEN <<>>
  ELSE IF Len(b) = 1 THEN
    <<B64[(b[1] \div 4) + 1], B64[((b[1] % 4) * 16) + 1], "=", "=">>
  ELSE IF Len(b) = 2 THEN
    <<B64[(b[1] \div 4) + 1],
      B64[((b[1] % 4) * 16 + (b[2] \div 16)) + 1],
      B64[((b[2] % 16) * 4) + 1], "=">>
  ELSE
    <<B64[(b[1] \div 4) + 1],
      B64[((b[1] % 4) * 16 + (b[2] \div 16)) + 1],
      B64[((b[2] % 16) * 4 + (b[3] \div 64)) + 1],
      B64[(b[3] % 64) + 1]>> \o base64Bytes(SubSeq(b, 4, Len(b)))

\* Utilities.base64Encode(text)
base64Encode(s) == base64Bytes(getBytes(s))

\* ------------------------------------------------------------------------
\* String.prototype.slice, String.prototype.replace, encodeURIComponent
\* ------------------------------------------------------------------------
Max(a, b) == IF a > b THEN a ELSE b

\* s.slice(start) for a negative start: the last -start characters
slice(s, start) ==
  LET from == IF start < 0 THEN Max(Len(s) + start, 0) ELSE start
  IN  SubSeq(s, from + 1, Len(s))

Grave == Printable[65]

\* the first position from i on where pat occurs in s, or 0
indexOf(s, pat, i) ==
  LET at == {j \in i..(Len(s) - Len(pat) + 1) :
               SubSeq(s, j, j + Len(pat) - 1) = pat}
  IN  IF at = {} THEN 0 ELSE CHOOSE j \in at : \A k \in at : j <= k

\* The text a replacement string r stands for at one match of a pattern
\* without capture groups: $$ is a dollar sign, $& the matched text, $` the
\* text before the match, $' the text after it; anything else is literal.
RECURSIVE GetSubstitution(_, _, _, _)
GetSubstitution(r, matched, before, after) ==
  LET d == indexOf(r, <<"$">>, 1)
  IN  IF d = 0 THEN r
      ELSE IF d < Len(r) /\ r[d + 1] \in {"$", "&", Grave, "'"} THEN
        SubSeq(r, 1, d - 1)
        \o (CASE r[d + 1] = "$" -> <<"$">>
              [] r[d + 1] = "&" -> matched
              [] r[d + 1] = Grave -> before
              [] OTHER -> after)
        \o GetSubstitution(SubSeq(r, d + 2, Len(r)), matched, before, after)
      ELSE SubSeq(r, 1, d)
           \o GetSubstitution(SubSeq(r, d + 1, Len(r)), matched, before, after)

RECURSIVE replaceFrom(_, _, _, _)
replaceFrom(s, i, pat, r) ==
  LET j == indexOf(s, pat, i)
  IN  IF j = 0 THEN SubSeq(s, i, Len(s))
      ELSE SubSeq(s, i, j - 1)
           \o GetSubstitution(r, pat, SubSeq(s, 1, j - 1),
                              SubSeq(s, j + Len(pat), Len(s)))
           \o replaceFrom(s, j + Len(pat), pat, r)

\* s.replace(/pat/g, replacement): every match of the literal pattern is
\* replaced, left to right, by the substitution of String(replacement)
replace(s, pat, replacement) == replaceFrom(s, 1, pat, String(replacement))

Hex == <<"0", "1", "2", "3", "4", "5", "6", "7", "8", "9", "A", "B", "C", "D", "E", "F">>

uriUnreserved ==
  {Printable[i] : i \in (17..26) \cup (34..59) \cup (66..91)}
    \cup {"-", "_", ".", "!", "~", "*", "'", "(", ")"}

\* encodeURI, which also leaves the reserved characters as they are
RECURSIVE encodeURI(_)
encodeURI(s) ==
  IF s = <<>> THEN <<>>
  ELSE (IF s[1] \in uriUnreserved
                    \cup {";", "/", "?", ":", "@", "&", "=", "+", "$", ",", "#"}
        THEN <<s[1]>>
        ELSE <<"%", Hex[(CharCodeOf[s[1]] \div 16) + 1],
                    Hex[(CharCodeOf[s[1]] % 16) + 1]>>)
       \o encodeURI(Tail(s))

\* encodeURIComponent on ASCII text: every character outside the unreserved
\* set becomes % and the two upper-case hexadecimal digits of its code
RECURSIVE encodeURIComponent(_)
encodeURIComponent(s) ==
  IF s = <<>> THEN <<>>
  ELSE (IF s[1] \in uriUnreserved THEN <<s[1]>>
        ELSE <<"%", Hex[(CharCodeOf[s[1]] \div 16) + 1],
                    Hex[(CharCodeOf[s[1]] % 16) + 1]>>)
       \o encodeURIComponent(Tail(s))

\* ------------------------------------------------------------------------
\* JSON.stringify of the request payload {app, records}
\* ------------------------------------------------------------------------
\* a record {id: {value: n}}
stringifyRecord(r) == <<"{", "\"", "i", "d", "\"", ":", "{", "\"", "v", "a", "l", "u", "e", "\"", ":">> \o NumToStr(r.id) \o <<"}", "}">>

RECURSIVE stringifyRecords(_)
stringifyRecords(rs) ==
  IF rs = <<>> THEN <<>>
  ELSE IF Len(rs) = 1 THEN stringifyRecord(rs[1])
  ELSE stringifyRecord(rs[1]) \o <<",">> \o stringifyRecords(Tail(rs))

\* a property whose value is undefined is left out
stringify(payload) ==
  <<"{">> \o (IF payload.app.t = "undefined" THEN <<>>
          ELSE <<"\"", "a", "p", "p", "\"", ":">> \o String(payload.app) \o <<",">>)
      \o <<"\"", "r", "e", "c", "o", "r", "d", "s", "\"", ":", "[">> \o stringifyRecords(payload.records) \o <<"]", "}">>

\* ------------------------------------------------------------------------
\* The environment: the app registry handed to the constructor, Google Drive,
\* and the answers of the HTTP transport
\* ------------------------------------------------------------------------
App(appid, guestid, token) ==
  [t |-> "object", appid |-> Num(appid), guestid |-> guestid,
   token |-> token]

\* apps: one entry with a token and no guest space, one in guest space 3
\* without a token, one in guest space 0 whose token is the empty string,
\* one whose guestid is null
Apps ==
  [n \in {"TOKEN", "GUEST", "ZERO", "NULL"} |->
     CASE n = "TOKEN" -> App(5, undefined, Str(<<"t", "k">>))
       [] n = "GUEST" -> App(12, Num(3), undefined)
       [] n = "ZERO" -> App(7, Num(0), Str(<<>>))
       [] OTHER -> App(8, null, Str(<<"t", "1", ",", "t", "2">>))]

\* names every plain object inherits from Object.prototype
ObjectPrototype == {"toString", "constructor"}

\* obj[name] on the registry: an own entry, an inherited function (whose
\* appid, guestid and token are undefined), or undefined
property(obj, name) ==
  IF name \in DOMAIN obj THEN obj[name]
  ELSE IF name \in ObjectPrototype THEN
    [t |-> "function", appid |-> undefined, guestid |-> undefined,
     token |-> undefined]
  ELSE undefined

File(name, mimeType, bytes) ==
  [name |-> name, mimeType |-> mimeType, bytes |-> bytes]

\* the files of Google Drive, by file id
Drive ==
  [f \in {"png", "txt", "quote", "blob"} |->
     CASE f = "png" -> File(<<"a", ".", "p", "n", "g">>, <<"i", "m", "a", "g", "e", "/", "p", "n", "g">>, <<137, 80, 78, 71>>)
       [] f = "txt" -> File(<<"n", ".", "t", "x", "t">>, <<"t", "e", "x", "t", "/", "p", "l", "a", "i", "n">>, <<>>)
       [] f = "quote" -> File(<<"a", "\"", "b">>, <<"t", "e", "x", "t", "/", "p", "l", "a", "i", "n">>, <<104, 105>>)
       [] OTHER -> File(<<"m", ".", "b", "i", "n">>, <<"a", "p", "p", "l", "i", "c", "a", "t", "i", "o", "n", "/", "o", "c", "t", "e", "t", "-", "s", "t", "r", "e", "a", "m">>,
                        <<1, 13, 10, 45, 45, 98, 108, 111, 98, 2>>)]

\* an error thrown, by its message or kind
Error(message) == [error |-> message]

\* what the transport does with one request: it fails, or the server answers
Net ==
  {[kind |-> "failure"],
   [kind |-> "response", status |-> 200],
   [kind |-> "response", status |-> 404]}

\* UrlFetchApp.fetch(url, options): a transport failure is thrown; an answer
\* whose status reports a failure is thrown too unless muteHttpExceptions is
\* set; any other answer is returned
fetch(url, options, net) ==
  IF net.kind = "failure" THEN [threw |-> TRUE, value |-> Error("TransportError")]
  ELSE IF net.status >= 400
          /\ ~("muteHttpExceptions" \in DOMAIN options
               /\ options.muteHttpExceptions)
    THEN [threw |-> TRUE, value |-> Error("HttpException")]
  ELSE [threw |-> FALSE, value |-> [status |-> net.status, url |-> url]]

\* ------------------------------------------------------------------------
\* class KintoneManager
\* ------------------------------------------------------------------------
\* new KintoneManager(...arguments): arguments[1] is the subdomain,
\* arguments[2] the registry, then user, pass and basic if they are passed
constructor(arguments) ==
  LET arg(i) == IF i <= Len(arguments) THEN arguments[i] ELSE undefined
      user == arg(3)
      pass == arg(4)
      basic == arg(5)
  IN  [subdomain |-> arguments[1],
       apps |-> arguments[2],
       basic |->
         IF ToBoolean(basic)
         THEN Str(base64Encode(String(basic.user) \o <<":">> \o String(basic.pass)))
         ELSE false,
       authorization |->
         IF Len(arguments) > 3
         THEN Str(base64Encode(String(user) \o <<":">> \o String(pass)))
         ELSE IF Len(arguments) > 2 THEN user
         ELSE null]

\* _getEndpoint testing !guest_id instead of guest_id == null
_getEndpoint_falsy(this, guest_id) ==
  LET endpoint ==
        IF slice(this.subdomain, -4) = <<".", "c", "o", "m">>
        THEN <<"h", "t", "t", "p", "s", ":", "/", "/">> \o this.subdomain
        ELSE <<"h", "t", "t", "p", "s", ":", "/", "/">> \o this.subdomain \o <<".", "c", "y", "b", "o", "z", "u", ".", "c", "o", "m">>
  IN  IF ~ToBoolean(guest_id)
      THEN endpoint \o <<"/", "k", "/", "v", "1">>
      ELSE endpoint \o replace(<<"/", "k", "/", "g", "u", "e", "s", "t", "/", "@", "1", "/", "v", "1">>, <<"@", "1">>, guest_id)

_getEndpoint(this, guest_id) ==
  LET endpoint ==
        IF slice(this.subdomain, -4) = <<".", "c", "o", "m">>
        THEN <<"h", "t", "t", "p", "s", ":", "/", "/">> \o this.subdomain
        ELSE <<"h", "t", "t", "p", "s", ":", "/", "/">> \o this.subdomain \o <<".", "c", "y", "b", "o", "z", "u", ".", "c", "o", "m">>
  IN  IF guest_id.t \in {"undefined", "null"}
      THEN endpoint \o <<"/", "k", "/", "v", "1">>
      ELSE endpoint \o replace(<<"/", "k", "/", "g", "u", "e", "s", "t", "/", "@", "1", "/", "v", "1">>, <<"@", "1">>, guest_id)

NoHeaders == [k \in {} |-> <<>>]

\* _authorizationHeader attaching Basic whenever this.basic is set
_authorizationHeader_basicAlone(this, app) ==
  IF ~(ToBoolean(this.authorization) \/ ToBoolean(app.token))
  THEN [threw |-> TRUE, value |-> Error("Authentication Failed")]
  ELSE
    [threw |-> FALSE,
     value |->
       (IF ToBoolean(app.token)
        THEN "X-Cybozu-API-Token" :> String(app.token) ELSE NoHeaders)
       @@
       (IF ToBoolean(this.basic)
        THEN "Authorization" :> (<<"B", "a", "s", "i", "c", " ">> \o String(this.basic))
        ELSE NoHeaders)
       @@
       (IF ToBoolean(this.authorization)
        THEN "X-Cybozu-Authorization" :> String(this.authorization)
        ELSE NoHeaders)]

\* the header map, or the Error the method throws
_authorizationHeader(this, app) ==
  IF ~(ToBoolean(this.authorization) \/ ToBoolean(app.token))
  THEN [threw |-> TRUE, value |-> Error("Authentication Failed")]
  ELSE
    [threw |-> FALSE,
     value |->
       (IF ToBoolean(app.token)
        THEN "X-Cybozu-API-Token" :> String(app.token) ELSE NoHeaders)
       @@
       (IF ToBoolean(this.authorization) /\ ToBoolean(this.basic)
        THEN "Authorization" :> (<<"B", "a", "s", "i", "c", " ">> \o String(this.basic))
        ELSE NoHeaders)
       @@
       (IF ToBoolean(this.authorization)
        THEN "X-Cybozu-Authorization" :> String(this.authorization)
        ELSE NoHeaders)]

_getOption(this, app) ==
  LET headers == _authorizationHeader(this, app)
  IN  IF headers.threw THEN headers
      ELSE [threw |-> FALSE,
            value |-> [method |-> "get", headers |-> headers.value,
                       muteHttpExceptions |-> TRUE]]

_postOption(this, app, payload) ==
  LET headers == _authorizationHeader(this, app)
  IN  IF headers.threw THEN headers
      ELSE [threw |-> FALSE,
            value |-> [method |-> "post", contentType |-> <<"a", "p", "p", "l", "i", "c", "a", "t", "i", "o", "n", "/", "j", "s", "o", "n">>,
                       headers |-> headers.value,
                       muteHttpExceptions |-> TRUE,
                       payload |-> stringify(payload)]]

_putOption(this, app, payload) ==
  LET headers == _authorizationHeader(this, app)
  IN  IF headers.threw THEN headers
      ELSE [threw |-> FALSE,
            value |-> [method |-> "put", contentType |-> <<"a", "p", "p", "l", "i", "c", "a", "t", "i", "o", "n", "/", "j", "s", "o", "n">>,
                       headers |-> headers.value,
                       muteHttpExceptions |-> TRUE,
                       payload |-> stringify(payload)]]

_deleteOption(this, app) ==
  LET headers == _authorizationHeader(this, app)
  IN  IF headers.threw THEN headers
      ELSE [threw |-> FALSE,
            value |-> [method |-> "delete", headers |-> headers.value,
                       muteHttpExceptions |-> TRUE]]

_uploadOption(this, app, payload, boundary) ==
  LET headers == _authorizationHeader(this, app)
  IN  IF headers.threw THEN headers
      ELSE [threw |-> FALSE,
            value |-> [method |-> "post",
                       contentType |-> <<"m", "u", "l", "t", "i", "p", "a", "r", "t", "/", "f", "o", "r", "m", "-", "d", "a", "t", "a", ";", " ", "b", "o", "u", "n", "d", "a", "r", "y", "=">> \o boundary,
                       headers |-> headers.value,
                       payload |-> payload]]

\* a throw that also forgets the session credential
Thrown_clearsAuth(this, error, read, built) ==
  [outcome |-> "throw", value |-> error, fetched |-> <<>>, read |-> read,
   built |-> built, this |-> [this EXCEPT !.authorization = null]]

\* How a call of a public method ends.  outcome/value: the response it
\* returns or the error it throws; fetched: the requests handed to
\* UrlFetchApp.fetch; read: the file ids asked of DriveApp; built: whether
\* the multipart body was assembled; this: the object after the call.
Thrown(this, error, read, built) ==
  [outcome |-> "throw", value |-> error, fetched |-> <<>>, read |-> read,
   built |-> built, this |-> this]

\* a call that fetches a second time when the transport fails
Fetched_retry(this, url, options, net, read, built) ==
  LET response == fetch(url, options, net)
      request == [url |-> url, options |-> options]
  IN  [outcome |-> IF response.threw THEN "throw" ELSE "return",
       value |-> response.value,
       fetched |-> IF net.kind = "failure" THEN <<request, request>>
                   ELSE <<request>>,
       read |-> read, built |-> built, this |-> this]

\* const response = UrlFetchApp.fetch(url, options); return response;
Fetched(this, url, options, net, read, built) ==
  LET response == fetch(url, options, net)
  IN  [outcome |-> IF response.threw THEN "throw" ELSE "return",
       value |-> response.value,
       fetched |-> <<[url |-> url, options |-> options]>>,
       read |-> read, built |-> built, this |-> this]

\* reading a property of undefined or null throws a TypeError
IsNullish(x) == x.t \in {"undefined", "null"}

create(this, app_name, records, net) ==
  LET app == property(this.apps, app_name)
  IN  IF IsNullish(app) THEN Thrown(this, Error("TypeError"), <<>>, FALSE)
      ELSE
        LET payload == [app |-> app.appid, records |-> records]
            url == replace(<<"@", "1", "/", "r", "e", "c", "o", "r", "d", "s", ".", "j", "s", "o", "n">>, <<"@", "1">>,
                           Str(_getEndpoint(this, app.guestid)))
            option == _postOption(this, app, payload)
        IN  IF option.threw THEN Thrown(this, option.value, <<>>, FALSE)
            ELSE Fetched(this, url, option.value, net, <<>>, FALSE)

search(this, app_name, query, net) ==
  LET q == encodeURIComponent(query)
      app == property(this.apps, app_name)
  IN  IF IsNullish(app) THEN Thrown(this, Error("TypeError"), <<>>, FALSE)
      ELSE
        LET url == replace(replace(replace(<<"@", "1", "/", "r", "e", "c", "o", "r", "d", "s", ".", "j", "s", "o", "n", "?", "a", "p", "p", "=", "@", "2", "&", "q", "u", "e", "r", "y", "=", "@", "3">>,
                             <<"@", "1">>, Str(_getEndpoint(this, app.guestid))),
                             <<"@", "2">>, app.appid),
                             <<"@", "3">>, Str(q))
            option == _getOption(this, app)
        IN  IF option.threw THEN Thrown(this, option.value, <<>>, FALSE)
            ELSE Fetched(this, url, option.value, net, <<>>, FALSE)

update(this, app_name, records, net) ==
  LET app == property(this.apps, app_name)
  IN  IF IsNullish(app) THEN Thrown(this, Error("TypeError"), <<>>, FALSE)
      ELSE
        LET payload == [app |-> app.appid, records |-> records]
            url == replace(<<"@", "1", "/", "r", "e", "c", "o", "r", "d", "s", ".", "j", "s", "o", "n">>, <<"@", "1">>,
                           Str(_getEndpoint(this, app.guestid)))
            option == _putOption(this, app, payload)
        IN  IF option.threw THEN Thrown(this, option.value, <<>>, FALSE)
            ELSE Fetched(this, url, option.value, net, <<>>, FALSE)

\* the reduction numbering the terms from 1
RECURSIVE reduce_oneBased(_, _, _)
reduce_oneBased(record_ids, index, prev) ==
  IF index >= Len(record_ids) THEN prev
  ELSE reduce_oneBased(record_ids, index + 1,
              prev \o replace(replace(<<"&", "i", "d", "s", "[", "@", "1", "]", "=", "@", "2">>, <<"@", "1">>, Num(index + 1)),
                              <<"@", "2">>, Num(record_ids[index + 1])))

\* record_ids.reduce((prev, current, index) => prev + "&ids[@1]=@2"..., prev)
\* from position index (zero-based) on
RECURSIVE reduce(_, _, _)
reduce(record_ids, index, prev) ==
  IF index >= Len(record_ids) THEN prev
  ELSE reduce(record_ids, index + 1,
              prev \o replace(replace(<<"&", "i", "d", "s", "[", "@", "1", "]", "=", "@", "2">>, <<"@", "1">>, Num(index)),
                              <<"@", "2">>, Num(record_ids[index + 1])))

destroy(this, app_name, record_ids, net) ==
  LET app == property(this.apps, app_name)
  IN  IF IsNullish(app) THEN Thrown(this, Error("TypeError"), <<>>, FALSE)
      ELSE
        LET query == reduce(record_ids, 0, <<"a", "p", "p", "=">> \o String(app.appid))
            url == replace(replace(<<"@", "1", "/", "r", "e", "c", "o", "r", "d", "s", ".", "j", "s", "o", "n", "?", "@", "2">>,
                             <<"@", "1">>, Str(_getEndpoint(this, app.guestid))),
                             <<"@", "2">>, Str(query))
            option == _deleteOption(this, app)
        IN  IF option.threw THEN Thrown(this, option.value, <<>>, FALSE)
            ELSE Fetched(this, url, option.value, net, <<>>, FALSE)

\* DriveApp.getFileById throws for an id Drive has no file for; the file is
\* read and the body assembled before app is first dereferenced
upload(this, app_name, file_id, net) ==
  LET app == property(this.apps, app_name)
  IN  IF file_id \notin DOMAIN Drive
      THEN Thrown(this, Error("DriveError"), <<file_id>>, FALSE)
      ELSE
        LET file == Drive[file_id]
            boundary == <<"b", "l", "o", "b">>
            data == <<"-", "-">> \o boundary \o <<LF>>
                    \o <<"C", "o", "n", "t", "e", "n", "t", "-", "D", "i", "s", "p", "o", "s", "i", "t", "i", "o", "n", ":", " ", "f", "o", "r", "m", "-", "d", "a", "t", "a", ";", " ", "n", "a", "m", "e", "=", "\"", "f", "i", "l", "e", "\"", ";", " ", "f", "i", "l", "e", "n", "a", "m", "e", "=", "\"">>
                    \o file.name \o <<"\"">> \o <<LF>>
                    \o <<"C", "o", "n", "t", "e", "n", "t", "-", "T", "y", "p", "e", ":">> \o file.mimeType \o <<CR, LF, CR, LF>>
            payload == getBytes(data) \o file.bytes
                       \o getBytes(<<CR, LF>> \o <<"-", "-">> \o boundary \o <<"-", "-">>)
        IN  IF IsNullish(app)
            THEN Thrown(this, Error("TypeError"), <<file_id>>, TRUE)
            ELSE
              LET url == replace(<<"@", "1", "/", "f", "i", "l", "e", ".", "j", "s", "o", "n">>, <<"@", "1">>,
                                 Str(_getEndpoint(this, app.guestid)))
                  option == _uploadOption(this, app, payload, boundary)
              IN  IF option.threw
                  THEN Thrown(this, option.value, <<file_id>>, TRUE)
                  ELSE Fetched(this, url, option.value, net, <<file_id>>, TRUE)

\* ------------------------------------------------------------------------
\* Bounds and the inputs drawn within them
\* ------------------------------------------------------------------------
MaxCalls == 2

MaxQueryLen == 2

MaxIds == 3

MaxRecords == 1

RECURSIVE StringsUpTo(_, _)
StringsUpTo(chars, n) ==
  IF n = 0 THEN {<<>>}
  ELSE LET shorter == StringsUpTo(chars, n - 1)
       IN  shorter \cup {Append(w, c) : w \in shorter, c \in chars}

\* subdomains that do and do not end in ".com"
Subdomains == {<<"d", "e", "v">>, <<"k", ".", "c", "o", "m">>, <<"c", "o", "m">>, <<".", "c", "o", "m">>, <<"x", "c", "o", "m">>}

Basic == [t |-> "object", user |-> Str(<<"b">>), pass |-> Str(<<"q">>)]

\* what follows subdomain and apps in the argument list: nothing, user,
\* user and pass, or user, pass and basic; undefined is passed only to reach
\* a later argument
RestArguments ==
  LET users == {Str(<<"d", "T", "p", "w">>), Str(<<>>)}
      passes == {Str(<<"p">>)}
  IN  {<<>>} \cup {<<u>> : u \in users}
      \cup {<<u, p>> : u \in users, p \in passes}
      \cup {<<u, p, Basic>> : u \in users \cup {undefined},
                              p \in passes \cup {undefined}}

AppNames == DOMAIN Apps \cup {"MISSING", "toString"}

FileIds == DOMAIN Drive \cup {"nofile"}

RecordLists == StringsUpTo({[id |-> 1], [id |-> 2]}, MaxRecords)

RecordIdLists == StringsUpTo({101, 102, 103}, MaxIds)

Queries ==
  StringsUpTo({"a", " ", "@", "$", "&", "%", "3", "="}, MaxQueryLen)
    \cup {<<"S", "t", "a", "t", "u", "s", " ", "=", " ", "\"", "O", "p", "e", "n", "\"">>, <<"$", "&", "@", "3">>, <<"%", "4", "1">>}

\* ------------------------------------------------------------------------
\* The state: one client, the argument list it was constructed from, the
\* calls made on it and the requests handed to the transport so far, and
\* the last call with how it ended
\* ------------------------------------------------------------------------
VARIABLES this, arguments, calls, fetches, last

vars == <<this, arguments, calls, fetches, last>>

Constructed(subdomains, rests) ==
  /\ arguments \in {<<s, Apps>> \o r : s \in subdomains, r \in rests}
  /\ this = constructor(arguments)
  /\ calls = 0
  /\ fetches = 0
  /\ last = [op |-> "none"]

Init == Constructed({<<"d", "e", "v">>}, RestArguments)

\* a call of method op with argument arg (a record naming the parameter)
\* that ended as result r
Called(op, app_name, arg, net, r) ==
  /\ this' = r.this
  /\ calls' = calls + 1
  /\ fetches' = fetches + Len(r.fetched)
  /\ last' = [op |-> op, app_name |-> app_name, arg |-> arg,
              net |-> IF r.fetched = <<>> THEN [kind |-> "unused"] ELSE net,
              outcome |-> r.outcome, value |-> r.value,
              fetched |-> r.fetched, read |-> r.read, built |-> r.built]
  /\ UNCHANGED arguments

Create ==
  /\ calls < MaxCalls
  /\ \E app_name \in AppNames, records \in {<<[id |-> 1]>>}, net \in Net :
       Called("create", app_name, [records |-> records], net,
              create(this, app_name, records, net))

Search ==
  /\ calls < MaxCalls
  /\ \E app_name \in AppNames, query \in {<<"a", " ", "b">>}, net \in Net :
       Called("search", app_name, [query |-> query], net,
              search(this, app_name, query, net))

Update ==
  /\ calls < MaxCalls
  /\ \E app_name \in AppNames, records \in {<<[id |-> 2]>>}, net \in Net :
       Called("update", app_name, [records |-> records], net,
              update(this, app_name, records, net))

Destroy ==
  /\ calls < MaxCalls
  /\ \E app_name \in AppNames, record_ids \in {<<101>>}, net \in Net :
       Called("destroy", app_name, [record_ids |-> record_ids], net,
              destroy(this, app_name, record_ids, net))

Upload ==
  /\ calls < MaxCalls
  /\ \E app_name \in AppNames, file_id \in {"png", "nofile"}, net \in Net :
       Called("upload", app_name, [file_id |-> file_id], net,
              upload(this, app_name, file_id, net))

Next == Create \/ Search \/ Update \/ Destroy \/ Upload

Spec == Init /\ [][Next]_vars

\* The first call on a freshly constructed client, with its argument drawn
\* from all the inputs within the bounds
InitRequest ==
  Constructed(Subdomains,
              {<<>>, <<Str(<<"d", "T", "p", "w">>)>>, <<Str(<<"u">>), Str(<<"p">>), Basic>>})

CreateRequest ==
  /\ calls = 0
  /\ \E app_name \in AppNames, records \in RecordLists, net \in Net :
       Called("create", app_name, [records |-> records], net,
              create(this, app_name, records, net))

SearchRequest ==
  /\ calls = 0
  /\ \E app_name \in AppNames, query \in Queries, net \in Net :
       Called("search", app_name, [query |-> query], net,
              search(this, app_name, query, net))

UpdateRequest ==
  /\ calls = 0
  /\ \E app_name \in AppNames, records \in RecordLists, net \in Net :
       Called("update", app_name, [records |-> records], net,
              update(this, app_name, records, net))

DestroyRequest ==
  /\ calls = 0
  /\ \E app_name \in AppNames, record_ids \in RecordIdLists, net \in Net :
       Called("destroy", app_name, [record_ids |-> record_ids], net,
              destroy(this, app_name, record_ids, net))

UploadRequest ==
  /\ calls = 0
  /\ \E app_name \in AppNames, file_id \in FileIds, net \in Net :
       Called("upload", app_name, [file_id |-> file_id], net,
              upload(this, app_name, file_id, net))

NextRequest ==
  CreateRequest \/ SearchRequest \/ UpdateRequest \/ DestroyRequest
    \/ UploadRequest

SpecRequest == InitRequest /\ [][NextRequest]_vars

\* ------------------------------------------------------------------------
\* Properties
\* ------------------------------------------------------------------------
\* a credential is set when it is a non-empty string
IsSet(x) == x.t = "string" /\ x.v # <<>>

Registered == last.op # "none" /\ last.app_name \in DOMAIN this.apps

Request == last.fetched[1]

HeaderMapOf(session, basic, token) ==
  (IF IsSet(session) THEN "X-Cybozu-Authorization" :> session.v
   ELSE NoHeaders)
  @@ (IF IsSet(token) THEN "X-Cybozu-API-Token" :> token.v ELSE NoHeaders)
  @@ (IF IsSet(session) /\ IsSet(basic)
      THEN "Authorization" :> (<<"B", "a", "s", "i", "c", " ">> \o basic.v) ELSE NoHeaders)

\* C1: whenever sessionAuth or the app's apiToken is set, the header map is
\* exactly X-Cybozu-Authorization iff sessionAuth is set, X-Cybozu-API-Token
\* iff apiToken is set, and Authorization: Basic iff sessionAuth and
\* basicAuth are both set; this holds of the headers of every request sent
\* and of the header function on every combination of the three fields.
AuthHeaderExact ==
  /\ \A session \in {null, undefined, Str(<<>>), Str(<<"d", "T", "p", "w">>)},
        basic \in {false, Str(<<"Y", "j", "p", "x", "I", "g", "=", "=">>)},
        token \in {undefined, Str(<<>>), Str(<<"t", "k">>)} :
       IsSet(session) \/ IsSet(token) =>
         LET h == _authorizationHeader(
                    [this EXCEPT !.authorization = session, !.basic = basic],
                    App(1, undefined, token))
         IN  ~h.threw /\ h.value = HeaderMapOf(session, basic, token)
  /\ last.op # "none" /\ last.fetched # <<>> =>
       LET token == property(this.apps, last.app_name).token
       IN  /\ IsSet(this.authorization) \/ IsSet(token)
           /\ Request.options.headers
                = HeaderMapOf(this.authorization, this.basic, token)

AuthHeaderExactWitness ==
  /\ last.op # "none" /\ last.fetched # <<>>
  /\ DOMAIN Request.options.headers
       = {"X-Cybozu-Authorization", "X-Cybozu-API-Token", "Authorization"}

\* C2: a call on a client without sessionAuth for a registered app without
\* apiToken fails with the authentication error, and when it is raised
\* nothing was handed to the transport, no file was read and no multipart
\* body was assembled.
AuthFailsBeforeIO ==
  Registered /\ ~IsSet(this.authorization)
    /\ ~IsSet(this.apps[last.app_name].token) =>
      /\ last.outcome = "throw" /\ last.value = Error("Authentication Failed")
      /\ last.fetched = <<>>
      /\ last.read = <<>>
      /\ ~last.built

\* C3: sessionAuth is base64(user:pass) when user and pass are both
\* supplied, user verbatim when only user is supplied, unset when neither
\* is, whether or not basic is supplied.
ConstructorSessionAuth ==
  LET arg(i) == IF i <= Len(arguments) THEN arguments[i] ELSE undefined
      user == arg(3)
      pass == arg(4)
  IN  /\ user # undefined /\ pass # undefined =>
           this.authorization = Str(base64Encode(user.v \o <<":">> \o pass.v))
      /\ user # undefined /\ pass = undefined => this.authorization = user
      /\ user = undefined /\ pass = undefined => ~IsSet(this.authorization)

\* the call handed one request to the transport and ended as fetch did
OneFetch ==
  /\ Len(last.fetched) = 1
  /\ LET response == fetch(Request.url, Request.options, last.net)
     IN  /\ last.outcome = (IF response.threw THEN "throw" ELSE "return")
         /\ last.value = response.value

\* the app name resolved to an entry the call could read its fields from
Resolved ==
  last.op # "none" /\ ~IsNullish(property(this.apps, last.app_name))

Authenticated ==
  IsSet(this.authorization)
    \/ IsSet(property(this.apps, last.app_name).token)

UnknownAppFailsImmediately ==
  last.op # "none" /\ last.app_name \notin DOMAIN this.apps =>
    /\ last.outcome = "throw"
    /\ last.fetched = <<>>
    /\ last.read = <<>>

EndsWith(s, suffix) ==
  /\ Len(s) >= Len(suffix)
  /\ SubSeq(s, Len(s) - Len(suffix) + 1, Len(s)) = suffix

StartsWith(s, prefix) ==
  Len(s) >= Len(prefix) /\ SubSeq(s, 1, Len(prefix)) = prefix

\* host + path for the client's subdomain and a registered app's guestid
EndpointOf(guestid) ==
  <<"h", "t", "t", "p", "s", ":", "/", "/">> \o this.subdomain
  \o (IF EndsWith(this.subdomain, <<".", "c", "o", "m">>) THEN <<>> ELSE <<".", "c", "y", "b", "o", "z", "u", ".", "c", "o", "m">>)
  \o (IF guestid \in {undefined, null} THEN <<"/", "k", "/", "v", "1">>
      ELSE <<"/", "k", "/", "g", "u", "e", "s", "t", "/">> \o NumToStr(guestid.v) \o <<"/", "v", "1">>)

\* C6: the URL of every request for a registered app is host + path followed
\* by /records.json or /file.json, with host https://{subdomain} when the
\* subdomain ends in .com and https://{subdomain}.cybozu.com otherwise, and
\* path /k/v1 when guestid is absent or null and /k/guest/{guestid}/v1 for
\* any other guestid, 0 included.
EndpointPrefix ==
  Registered /\ last.fetched # <<>> =>
    StartsWith(Request.url,
               EndpointOf(this.apps[last.app_name].guestid)
               \o (IF last.op = "upload" THEN <<"/", "f", "i", "l", "e", ".", "j", "s", "o", "n">>
                   ELSE <<"/", "r", "e", "c", "o", "r", "d", "s", ".", "j", "s", "o", "n">>))

EndpointPrefixWitness ==
  /\ Registered /\ last.fetched # <<>>
  /\ last.app_name = "ZERO" /\ this.subdomain = <<"k", ".", "c", "o", "m">>
  /\ Request.url = <<"h", "t", "t", "p", "s", ":", "/", "/", "k", ".", "c", "o", "m", "/", "k", "/", "g", "u", "e", "s", "t", "/", "0", "/", "v", "1", "/", "f", "i", "l", "e", ".", "j", "s", "o", "n">>

RECURSIVE IdsTerms(_, _)
IdsTerms(ids, n) ==
  IF n = 0 THEN <<>>
  ELSE IdsTerms(ids, n - 1)
       \o <<"&", "i", "d", "s", "[">> \o NumToStr(n - 1) \o <<"]", "=">> \o NumToStr(ids[n])

\* C7: destroy sends a DELETE without a body to {endpoint}/records.json?
\* app={appId} followed by one term &ids[{i}]={recordIds[i]} per element, in
\* input order and numbered by zero-based position; appId 5 and
\* [101,102,103] give app=5&ids[0]=101&ids[1]=102&ids[2]=103.
DestroyQuery ==
  Registered /\ last.op = "destroy" /\ last.fetched # <<>> =>
    LET app == this.apps[last.app_name]
    IN  /\ Request.url
             = EndpointOf(app.guestid) \o <<"/", "r", "e", "c", "o", "r", "d", "s", ".", "j", "s", "o", "n", "?", "a", "p", "p", "=">>
               \o NumToStr(app.appid.v) \o IdsTerms(last.arg.record_ids,
                           Len(last.arg.record_ids))
        /\ Request.options.method = "delete"
        /\ "payload" \notin DOMAIN Request.options
        /\ last.app_name = "TOKEN" /\ last.arg.record_ids = <<101, 102, 103>> =>
             EndsWith(Request.url,
                      <<"?", "a", "p", "p", "=", "5", "&", "i", "d", "s", "[", "0", "]", "=", "1", "0", "1", "&", "i", "d", "s", "[", "1", "]", "=", "1", "0", "2", "&", "i", "d", "s", "[", "2", "]", "=", "1", "0", "3">>)

DestroyQueryWitness ==
  /\ Registered /\ last.op = "destroy" /\ last.fetched # <<>>
  /\ last.app_name = "TOKEN" /\ last.arg.record_ids = <<101, 102, 103>>

\* --- reading a payload back as multipart/form-data with boundary blob ---
CRLF == <<13, 10>>

Delimiter == getBytes(<<"-", "-", "b", "l", "o", "b">>)

\* the header block: from the first delimiter to the first empty line
PartHeaders(p) ==
  SubSeq(p, Len(Delimiter) + 1, indexOf(p, CRLF \o CRLF, 1) - 1)

\* the content: from the empty line to the next delimiter line
PartStart(p) == indexOf(p, CRLF \o CRLF, 1) + 4

PartEnd(p) == indexOf(p, CRLF \o Delimiter, PartStart(p))

PartBytes(p) == SubSeq(p, PartStart(p), PartEnd(p) - 1)

\* what follows the delimiter that ends the first part
AfterPart(p) == SubSeq(p, PartEnd(p) + Len(CRLF \o Delimiter), Len(p))

\* the value of a quoted parameter such as filename="..."
Quoted(h, key) ==
  LET from == indexOf(h, key, 1) + Len(key)
  IN  IF indexOf(h, key, 1) = 0 \/ indexOf(h, <<34>>, from) = 0 THEN <<"none">>
      ELSE SubSeq(h, from, indexOf(h, <<34>>, from) - 1)

\* the value of a header field, up to the end of its line
Field(h, key) ==
  LET from == indexOf(h, key, 1) + Len(key)
      ends == {indexOf(h, <<10>>, from), indexOf(h, <<13>>, from)} \ {0}
  IN  IF indexOf(h, key, 1) = 0 THEN <<"none">>
      ELSE SubSeq(h, from,
                  IF ends = {} THEN Len(h)
                  ELSE (CHOOSE e \in ends : \A o \in ends : e <= o) - 1)

\* C8: the payload of upload is the part header text, CRLFCRLF, the file's
\* bytes, CRLF and the closing boundary marker, and read back as
\* multipart/form-data with boundary blob it is exactly one part named file
\* whose filename, content type and bytes are the source file's.
UploadRoundTrip ==
  Registered /\ last.op = "upload" /\ last.fetched # <<>> =>
    LET p == Request.options.payload
        file == Drive[last.arg.file_id]
    IN  /\ p = getBytes(<<"-", "-", "b", "l", "o", "b">> \o <<LF>>
                 \o <<"C", "o", "n", "t", "e", "n", "t", "-", "D", "i", "s", "p", "o", "s", "i", "t", "i", "o", "n", ":", " ", "f", "o", "r", "m", "-", "d", "a", "t", "a", ";", " ", "n", "a", "m", "e", "=", "\"", "f", "i", "l", "e", "\"", ";", " ", "f", "i", "l", "e", "n", "a", "m", "e", "=", "\"">>
                 \o file.name \o <<"\"">> \o <<LF>>
                 \o <<"C", "o", "n", "t", "e", "n", "t", "-", "T", "y", "p", "e", ":">> \o file.mimeType)
               \o CRLF \o CRLF \o file.bytes \o CRLF \o getBytes(<<"-", "-", "b", "l", "o", "b", "-", "-">>)
        /\ StartsWith(p, Delimiter)
        /\ AfterPart(p) = getBytes(<<"-", "-">>)
        /\ Quoted(PartHeaders(p), getBytes(<<" ", "n", "a", "m", "e", "=", "\"">>)) = getBytes(<<"f", "i", "l", "e">>)
        /\ Quoted(PartHeaders(p), getBytes(<<"f", "i", "l", "e", "n", "a", "m", "e", "=", "\"">>)) = getBytes(file.name)
        /\ Field(PartHeaders(p), getBytes(<<"C", "o", "n", "t", "e", "n", "t", "-", "T", "y", "p", "e", ":">>))
             = getBytes(file.mimeType)
        /\ PartBytes(p) = file.bytes

\* --- decoding a percent-encoded text ---
HexDigits == {Hex[i] : i \in 1..16}

HexValue(c) == (CHOOSE i \in 1..16 : Hex[i] = c) - 1

CharOfCode(n) == IF n = 13 THEN CR ELSE IF n = 10 THEN LF ELSE Printable[n - 31]

\* q is made of unreserved characters and %XX triples only
IsEncoded(q) ==
  \A i \in 1..Len(q) :
    \/ q[i] \in uriUnreserved
    \/ /\ q[i] = "%"
       /\ i + 2 <= Len(q)
       /\ q[i + 1] \in HexDigits
       /\ q[i + 2] \in HexDigits

RECURSIVE decodeURIComponent(_)
decodeURIComponent(q) ==
  LET i == indexOf(q, <<"%">>, 1)
  IN  IF i = 0 THEN q
      ELSE SubSeq(q, 1, i - 1)
           \o <<CharOfCode(16 * HexValue(q[i + 1]) + HexValue(q[i + 2]))>>
           \o decodeURIComponent(SubSeq(q, i + 3, Len(q)))

\* C9: search sends a GET without a body to
\* {endpoint}/records.json?app={appId}&query={q}, where q is the query
\* percent-encoded once: q holds only unreserved characters and %XX triples,
\* decoding it once gives the query back, and the endpoint and the app= term
\* are the same whatever the query is.
SearchUrl ==
  Registered /\ last.op = "search" /\ last.fetched # <<>> =>
    LET app == this.apps[last.app_name]
        prefix == EndpointOf(app.guestid) \o <<"/", "r", "e", "c", "o", "r", "d", "s", ".", "j", "s", "o", "n", "?", "a", "p", "p", "=">>
                  \o NumToStr(app.appid.v) \o <<"&", "q", "u", "e", "r", "y", "=">>
        q == SubSeq(Request.url, Len(prefix) + 1, Len(Request.url))
    IN  /\ StartsWith(Request.url, prefix)
        /\ IsEncoded(q)
        /\ decodeURIComponent(q) = last.arg.query
        /\ last.arg.query = <<"S", "t", "a", "t", "u", "s", " ", "=", " ", "\"", "O", "p", "e", "n", "\"">> => q = <<"S", "t", "a", "t", "u", "s", "%", "2", "0", "%", "3", "D", "%", "2", "0", "%", "2", "2", "O", "p", "e", "n", "%", "2", "2">>
        /\ Request.options.method = "get"
        /\ "payload" \notin DOMAIN Request.options

SearchUrlWitness ==
  /\ Registered /\ last.op = "search" /\ last.fetched # <<>>
  /\ last.arg.query = <<"$", "&", "@", "3">>
  /\ EndsWith(Request.url, <<"&", "q", "u", "e", "r", "y", "=", "%", "2", "4", "%", "2", "6", "%", "4", "0", "3">>)

\* the call of method op on a client c
Handler(op, c, app_name, arg, net) ==
  CASE op = "create" -> create(c, app_name, arg.records, net)
    [] op = "search" -> search(c, app_name, arg.query, net)
    [] op = "update" -> update(c, app_name, arg.records, net)
    [] op = "destroy" -> destroy(c, app_name, arg.record_ids, net)
    [] OTHER -> upload(c, app_name, arg.file_id, net)

\* C10: after any sequence of calls, whatever their outcome, subdomain,
\* sessionAuth, basicAuth and the registry are what the constructor made
\* them, and the last call handed the transport the request a freshly
\* constructed client would hand it for the same arguments.
ConfigurationFrozen ==
  /\ this = constructor(arguments)
  /\ last.op # "none" =>
       last.fetched
         = Handler(last.op, constructor(arguments), last.app_name, last.arg,
                   IF last.fetched = <<>> THEN [kind |-> "failure"]
                   ELSE last.net).fetched

ConfigurationFrozenWitness ==
  /\ calls = 2 /\ fetches = 1
  /\ last.op = "search" /\ last.outcome = "return"
====
